---- MODULE Spec2Model ----
(***************************************************************************)
(* Symphony Local: the App shell (file mode / live mode / start screen),   *)
(* the MainPlayer component with its React effects (audio context,         *)
(* WaveSurfer instance, track load, live waterfall render loop) and the    *)
(* calibration sweep (runLiveCalibration) with its timers.                 *)
(*                                                                         *)
(* One action is one event-loop task: an event handler, a timer callback,  *)
(* an animation-frame callback or the continuation of an await, together   *)
(* with the React commit (effect cleanups, then effects, in declaration    *)
(* order) that the handler's state updates cause.                          *)
(***************************************************************************)
EXTENDS Integers, Sequences, FiniteSets, TLC

\* ------------------------------------------------------------------ bounds
\* Number of times MainPlayer may be mounted (start screen -> main view).
MaxMounts == 2
\* Number of live graphs (runs of the live waterfall effect) ever built.
MaxGraphs == 2
\* Number of WaveSurfer instances ever created.
MaxWs == 2
\* Number of runLiveCalibration invocations that pass the entry guard.
MaxSweeps == 3
\* Width of the live canvas in columns (1200 in the source, scaled down).
CanvasWidth == 2
\* analyzer.fftSize (2048 in the source, scaled down).
FftSize == 8
\* Number of low bins averaged into the signal level (50 in the source).
LevelBins == 2
\* Number of MP3 files a selected folder may hold.
MaxFiles == 2
\* Number of takeSnapshot calls.
MaxSnapshots == 2
MaxTracks == 3

\* ------------------------------------------------------- program constants
FREQ_MAX == 12000
CalibStartFreq == 10
CalibStepFreq == 200
MicGainDefault == 150
\* <canvas width={1200} height={320}>: the height in pixels.
CanvasHeight == 320
\* generateBirdSongColormap: for (i = 0; i < 256; i++), ratio = i / 255.
ColormapSize == 256
ColormapMaxIndex == 255

\* Magnitudes a frequency bin may take (bytes 0..255, two representatives).
Mags == {0, 255}
\* Sample rates the host may give an AudioContext.
SampleRates == {16000, 22050, 44100, 48000}
\* Values the gain slider may be moved to, in hundredths.
GainValues == {MicGainDefault, 300}

\* analyzer.frequencyBinCount = fftSize / 2.
BinCount == FftSize \div 2
\* A frame is the content of dataArray after getByteFrequencyData:
\* frame[i+1] is dataArray[i].
Frames == [1..BinCount -> Mags]
SilentFrame == [i \in 1..BinCount |-> 0]

\* A column of the canvas is the list of band fills made on it since it was
\* last cleared to black, in drawing order: [bin, fill, y, height], where
\* fill is the RGB colour and y and height are fractions <<numerator,
\* denominator>> of a pixel.
BlankColumn == << >>
BlankBuffer == [x \in 1..CanvasWidth |-> BlankColumn]

VARIABLES
  \* ---- App state (useState in App)
  files, currentTrack, micStream, isLoading, error, hasStarted,
  \* handleStartMic suspended at await getUserMedia
  micPending,
  \* media streams handed out so far, and those whose tracks were stopped
  streamCount, stoppedStreams,
  \* ---- MainPlayer instance (refs and useState)
  inst,            \* number of MainPlayer instances mounted so far
  audioCtxRef,     \* audioCtxRef.current: 0 or a context id
  ctxs,            \* every AudioContext created: [state, sampleRate]
  wavesurfer,      \* wavesurfer.current: 0 or a WaveSurfer id
  wsAlive,         \* WaveSurfer instances created and not destroyed
  wsCount,
  wsLoading,       \* instance with a load in flight (once ready / error)
  lastReady,       \* history: the instance whose load last fired 'ready'
  specCanvas,      \* instance whose spectrogram canvas is in spectrogramRef
  snapshotLog,     \* history: the outcome of every takeSnapshot call
  isBuffering, playerError, micGain, isCalibrating, calibFreq, signalLevel,
  analyzerRef,     \* analyzerRef.current: 0 or a live graph id
  liveEffect,      \* live graph whose effect cleanup is installed, or 0
  graphs,          \* every live graph built: [ctx, stream, gain, inst]
  edges,           \* connections between audio nodes of all contexts
  rafPending,      \* live graphs whose renderLive has a frame requested
  dataArray,       \* dataArray of the live graph that last ran renderLive
  buffer,          \* pixels of the latest instance's live canvas, by column
  pushed,          \* history: columns drawn since the canvas was cleared
  ticks,           \* history: renderLive runs since then, up to width + 1
  sweeps           \* every runLiveCalibration invocation past its guard;
                   \* peak is the largest value it passed to setCalibFreq

appVars == <<files, currentTrack, micStream, isLoading, error, hasStarted,
             micPending, streamCount, stoppedStreams>>
wsVars == <<wavesurfer, wsAlive, wsCount, wsLoading, lastReady, specCanvas,
            isBuffering, playerError>>
liveVars == <<analyzerRef, liveEffect, graphs, rafPending, dataArray, buffer,
              pushed, ticks, signalLevel>>
calibVars == <<isCalibrating, calibFreq, sweeps>>
vars == <<appVars, inst, audioCtxRef, ctxs, wsVars, micGain, liveVars, edges,
          calibVars, snapshotLog>>

\* ------------------------------------------------------------ audio nodes
Destination(c) == <<"destination", c>>
MicSource(g) == <<"source", g>>
MicGainNode(g) == <<"gainNode", g>>
Analyser(g) == <<"analyser", g>>
Osc(s) == <<"osc", s>>
SweepGain(s) == <<"gain", s>>

\* ---------------------------------------------------------------- colormap
\* keyPoints, pos in hundredths.
KeyPoints ==
  << [pos |-> 0,   color |-> <<0, 0, 0>>],
     [pos |-> 15,  color |-> <<20, 0, 60>>],
     [pos |-> 40,  color |-> <<140, 0, 160>>],
     [pos |-> 70,  color |-> <<255, 100, 0>>],
     [pos |-> 100, color |-> <<255, 255, 255>> ] >>

\* ratio >= keyPoints[j].pos && ratio <= keyPoints[j + 1].pos with
\* ratio = i / 255, both sides multiplied by 100 * 255.
InSegment(i, j) ==
  /\ i * 100 >= KeyPoints[j].pos * ColormapMaxIndex
  /\ i * 100 <= KeyPoints[j + 1].pos * ColormapMaxIndex

\* The inner loop with its break: the first segment that holds the ratio;
\* without one, start and end stay the first and the last key point.
SegmentStart(i) ==
  IF \E j \in 1..(Len(KeyPoints) - 1) : InSegment(i, j)
  THEN KeyPoints[CHOOSE j \in 1..(Len(KeyPoints) - 1) :
                   /\ InSegment(i, j)
                   /\ \A k \in 1..(j - 1) : ~InSegment(i, k)]
  ELSE KeyPoints[1]
SegmentEnd(i) ==
  IF \E j \in 1..(Len(KeyPoints) - 1) : InSegment(i, j)
  THEN KeyPoints[(CHOOSE j \in 1..(Len(KeyPoints) - 1) :
                    /\ InSegment(i, j)
                    /\ \A k \in 1..(j - 1) : ~InSegment(i, k)) + 1]
  ELSE KeyPoints[Len(KeyPoints)]

\* A rounding that truncates.
MathRound_Floor(n, d) == n \div d

\* Math.round(n / d) for d > 0: the nearest integer, halves upwards.
MathRound(n, d) == (2 * n + d) \div (2 * d)

\* A channel that stays at the start colour of its segment.
Channel_StartOnly(c0, c1, num, den) == c0

\* Math.round(start + (end - start) * rangeRatio) for one channel, with
\* rangeRatio = range === 0 ? 0 : (ratio - start.pos) / range as the
\* fraction num / den.
Channel(c0, c1, num, den) ==
  IF den = 0 THEN c0 ELSE MathRound(c0 * den + (c1 - c0) * num, den)

\* colormap[i] = [r, g, b].
ColormapEntry(i) ==
  LET start == SegmentStart(i)
      end == SegmentEnd(i)
      num == i * 100 - start.pos * ColormapMaxIndex
      den == (end.pos - start.pos) * ColormapMaxIndex
  IN [c \in 1..3 |-> Channel(start.color[c], end.color[c], num, den)]

\* generateBirdSongColormap(): colormap[i] is element i + 1.
generateBirdSongColormap == [k \in 1..ColormapSize |-> ColormapEntry(k - 1)]

\* --------------------------------------------------------- live waterfall
\* dataArray[i]; an index past the array reads undefined, which is not > 0.
BinValue(frame, i) == IF i < Len(frame) THEN frame[i + 1] ELSE 0

\* A loop bound that takes every bin of the analyser.
MaxFreqIndex_AllBins(sampleRate) == BinCount

\* maxFreqIndex = Math.floor((FREQ_MAX / nyquist) * bufferLength),
\* nyquist = sampleRate / 2.
MaxFreqIndex(sampleRate) == (FREQ_MAX * BinCount * 2) \div sampleRate

\* A test that lets zero magnitudes through.
Drawn_ZeroToo(value) == value >= 0

\* if (value > 0)
Drawn(value) == value > 0

\* The body of the if: fillStyle = rgb(colormap[value]);
\* y = canvas.height - (i / maxFreqIndex) * canvas.height;
\* height = canvas.height / maxFreqIndex + 1; fillRect(x, y - height, 1, height).
Band(i, value, maxFreqIndex) ==
  [bin |-> i,
   fill |-> generateBirdSongColormap[value + 1],
   y |-> <<CanvasHeight * maxFreqIndex - i * CanvasHeight, maxFreqIndex>>,
   height |-> <<CanvasHeight + maxFreqIndex, maxFreqIndex>>]

\* The loop over i < maxFreqIndex: one fillRect per bin with value > 0.
RECURSIVE Bands(_, _, _)
Bands(frame, i, maxFreqIndex) ==
  IF i >= maxFreqIndex THEN << >>
  ELSE (IF Drawn(BinValue(frame, i))
        THEN << Band(i, BinValue(frame, i), maxFreqIndex) >> ELSE << >>)
       \o Bands(frame, i + 1, maxFreqIndex)

\* The indices at which the loop reads dataArray.
BandLoopIndices(sampleRate) == 0..(MaxFreqIndex(sampleRate) - 1)

DrawColumn(frame, sampleRate) == Bands(frame, 0, MaxFreqIndex(sampleRate))

\* The shift with the region read from x = 0: nothing moves.
ShiftLeft_FromZero(buf) == buf

\* getImageData(1, 0, width - 1, height); putImageData(imageData, 0, 0):
\* column x takes the content of column x + 1; the last column is not written.
ShiftLeft(buf) ==
  [x \in 1..CanvasWidth |-> IF x < CanvasWidth THEN buf[x + 1] ELSE buf[x]]

\* x = canvas.width - 1; fillRect(x, 0, 1, height) in black, then the bands.
NewColumnX == CanvasWidth

\* sum of dataArray[0..49] / 50, kept as the pair <<sum, divisor>>.
RECURSIVE SumBins(_, _)
SumBins(frame, n) == IF n = 0 THEN 0 ELSE SumBins(frame, n - 1) + frame[n]
\* A level taken over every bin of the frame.
Level_AllBins(frame) == <<SumBins(frame, Len(frame)), LevelBins>>

\* setSignalLevel(sum / 50)
Level(frame) ==
  IF LevelBins <= Len(frame) THEN <<SumBins(frame, LevelBins), LevelBins>>
  ELSE <<"NaN", LevelBins>>

\* One execution of renderLive on the canvas content buf.
RenderLive(buf, frame, sampleRate) ==
  [ShiftLeft(buf) EXCEPT ![NewColumnX] = DrawColumn(frame, sampleRate)]

\* History of the columns drawn, the newest last, the oldest dropped once
\* more than the canvas width have been drawn.
Remember(hist, col) ==
  LET h == Append(hist, col)
  IN IF Len(h) > CanvasWidth THEN Tail(h) ELSE h

\* animationFrameId = requestAnimationFrame(renderLive), the last statement
\* of renderLive of graph g: the callback that ran is no longer pending.
RequestFrame(pending, g) == (pending \ {g}) \cup {g}

\* wavesurfer.current?.destroy()
WsDestroy(alive, ws) == alive \ {ws}


\* A cleanup that leaves the instance alone.
WsEffectCleanup_NoDestroy(alive, ws) == alive

\* The effect cleanup of the WaveSurfer effect: wavesurfer.current?.destroy().
WsEffectCleanup(alive, ws) == WsDestroy(alive, ws)

\* A cleanup that cancels nothing.
LiveEffectCleanup_NoCancel(pending, g) == pending

\* The effect cleanup of the live effect, first statement:
\* cancelAnimationFrame(animationFrameId), where animationFrameId is the
\* request made by the latest renderLive of graph g.
LiveEffectCleanup(pending, g) == pending \ {g}

\* processLocalFiles: keep the MP3 files, sort them by name.  A file is its
\* rank in name order, so sorting by name is sorting by number.
RECURSIVE SortByName(_)
SortByName(S) ==
  IF S = {} THEN << >>
  ELSE LET m == CHOOSE x \in S : \A y \in S : x <= y
       IN <<m>> \o SortByName(S \ {m})

Range(f) == {f[i] : i \in DOMAIN f}

\* --------------------------------------------------------- the React commit
(***************************************************************************)
(* Commit(hs, ms, ct, fl, g, frame, newCtx): App now renders hasStarted =  *)
(* hs, micStream = ms, currentTrack = ct, files = fl and MainPlayer holds  *)
(* micGain = g.  MainPlayer is mounted iff hasStarted.  React runs the     *)
(* cleanups of the effects whose dependencies changed (all of them on      *)
(* unmount), then those effects in declaration order (all of them on       *)
(* mount).  frame is what getByteFrequencyData gives the first renderLive, *)
(* newCtx the AudioContext the host would create.                          *)
(***************************************************************************)
Commit(hs, ms, ct, fl, g, frame, newCtx) ==
  LET mounting == ~hasStarted /\ hs
      unmounting == hasStarted /\ ~hs
      updating == hasStarted /\ hs
      \* onNext = handleNextTrack, useCallback over [currentTrack, files]
      onNextChanged == ct # currentTrack \/ fl # files
      micChanged == ms # micStream
      \* initWaveSurfer is a useCallback over [onNext, micStream]
      wsDirty == updating /\ (onNextChanged \/ micChanged)
      loadDirty == updating /\ (ct # currentTrack \/ micChanged)
      liveDirty == updating /\ (micChanged \/ g # micGain)
      \* ---- cleanups
      alive1 == IF unmounting \/ wsDirty
                THEN WsEffectCleanup(wsAlive, wavesurfer) ELSE wsAlive
      liveCleaned == (unmounting \/ liveDirty) /\ liveEffect # 0
      raf1 == IF liveCleaned
              THEN LiveEffectCleanup(rafPending, liveEffect) ELSE rafPending
      an1 == IF liveCleaned THEN 0 ELSE analyzerRef
      le1 == IF liveCleaned THEN 0 ELSE liveEffect
      \* ---- the refs and the state of an instance go with it; a new
      \* instance starts with empty refs and the initial state
      fresh == mounting \/ unmounting
      wsRef0 == IF fresh THEN 0 ELSE wavesurfer
      ctxRef0 == IF fresh THEN 0 ELSE audioCtxRef
      an0 == IF fresh THEN 0 ELSE an1
      gain0 == IF fresh THEN MicGainDefault ELSE g
      \* ---- effect: audio context (runs on mount only)
      ctxCreated == mounting /\ ctxRef0 = 0
      ctxs1 == IF ctxCreated THEN Append(ctxs, newCtx) ELSE ctxs
      ctxRef1 == IF ctxCreated THEN Len(ctxs1) ELSE ctxRef0
      \* ---- effect: if (!micStream) initWaveSurfer()
      \* waveformRef and spectrogramRef are rendered iff a track is shown
      \* in file mode
      refsAttached == ms = 0 /\ ct # 0
      wsCreated == (mounting \/ wsDirty) /\ ms = 0 /\ refsAttached
      alive2 == IF wsCreated THEN WsDestroy(alive1, wsRef0) ELSE alive1
      newWs == wsCount + 1
      alive3 == IF wsCreated THEN alive2 \cup {newWs} ELSE alive2
      wsRef2 == IF wsCreated THEN newWs ELSE wsRef0
      \* ---- effect: load the track
      loads == (mounting \/ loadDirty) /\ ms = 0 /\ ct # 0 /\ wsRef2 # 0
      \* ---- effect: live waterfall
      \* the live canvas is rendered iff micStream is set
      canvasAttached == ms # 0
      liveBuilt == (mounting \/ liveDirty) /\ ms # 0 /\ canvasAttached
      ctxCreated2 == liveBuilt /\ ctxRef1 = 0
      ctxs2 == IF ctxCreated2 THEN Append(ctxs1, newCtx) ELSE ctxs1
      ctxRef2 == IF ctxCreated2 THEN Len(ctxs2) ELSE ctxRef1
      newG == Len(graphs) + 1
      sampleRate == ctxs2[ctxRef2].sampleRate
      first == DrawColumn(frame, sampleRate)
  IN  /\ mounting => inst < MaxMounts
      /\ wsCreated => wsCount < MaxWs
      /\ liveBuilt => /\ Len(graphs) < MaxGraphs
                      /\ ctxs2[ctxRef2].state = "suspended" => frame = SilentFrame
      /\ inst' = IF mounting THEN inst + 1 ELSE inst
      /\ ctxs' = ctxs2
      /\ audioCtxRef' = ctxRef2
      /\ wsAlive' = alive3
      /\ wavesurfer' = wsRef2
      /\ wsCount' = IF wsCreated THEN newWs ELSE wsCount
      /\ wsLoading' = IF loads /\ wsRef2 \in alive3 THEN wsRef2
                      ELSE IF wsLoading \in alive3 THEN wsLoading ELSE 0
      /\ lastReady' = IF fresh THEN 0 ELSE lastReady
      \* spectrogramRef.current.innerHTML = ''; destroy() removes the canvas
      /\ specCanvas' = IF fresh \/ wsCreated \/ specCanvas \notin alive3
                       THEN 0 ELSE specCanvas
      /\ isBuffering' = IF loads THEN TRUE
                        ELSE IF fresh THEN FALSE ELSE isBuffering
      /\ playerError' = IF loads \/ fresh THEN "none" ELSE playerError
      /\ micGain' = gain0
      /\ isCalibrating' = IF fresh THEN FALSE ELSE isCalibrating
      /\ calibFreq' = IF fresh THEN 0 ELSE calibFreq
      /\ IF liveBuilt
         THEN /\ graphs' = Append(graphs, [ctx |-> ctxRef2, stream |-> ms,
                                            gain |-> gain0,
                                            inst |-> IF mounting THEN inst + 1 ELSE inst])
              /\ analyzerRef' = newG
              /\ liveEffect' = newG
              /\ edges' = edges \cup {<<MicSource(newG), MicGainNode(newG)>>,
                                      <<MicGainNode(newG), Analyser(newG)>>}
              \* fillRect(0, 0, width, height) in black, then renderLive()
              /\ dataArray' = frame
              /\ buffer' = RenderLive(BlankBuffer, frame, sampleRate)
              /\ pushed' = Remember(<< >>, first)
              /\ signalLevel' = Level(frame)
              /\ ticks' = 1
              /\ rafPending' = RequestFrame(raf1, newG)
         ELSE /\ graphs' = graphs
              /\ analyzerRef' = an0
              /\ liveEffect' = le1
              /\ edges' = edges
              \* a new instance renders its own elements: no live canvas yet
              /\ dataArray' = IF mounting THEN SilentFrame ELSE dataArray
              /\ buffer' = IF mounting THEN BlankBuffer ELSE buffer
              /\ pushed' = IF mounting THEN << >> ELSE pushed
              /\ ticks' = IF mounting THEN 0 ELSE ticks
              /\ signalLevel' = IF fresh THEN <<0, LevelBins>> ELSE signalLevel
              /\ rafPending' = raf1

\* The inputs of a commit that the host chooses: a new AudioContext starts
\* suspended or running (autoplay policy) at one of the sample rates.
CtxChoices == [state : {"suspended", "running"}, sampleRate : SampleRates]
\* Passed to a commit that creates no context and runs no renderLive.
NoCtx == [state |-> "running", sampleRate |-> 48000]

\* ------------------------------------------------------------------- Init
Init ==
  /\ files = << >> /\ currentTrack = 0 /\ micStream = 0
  /\ isLoading = FALSE /\ error = "none" /\ hasStarted = FALSE
  /\ micPending = FALSE /\ streamCount = 0 /\ stoppedStreams = {}
  /\ inst = 0 /\ audioCtxRef = 0 /\ ctxs = << >>
  /\ wavesurfer = 0 /\ wsAlive = {} /\ wsCount = 0 /\ wsLoading = 0
  /\ lastReady = 0 /\ specCanvas = 0 /\ snapshotLog = << >>
  /\ isBuffering = FALSE /\ playerError = "none" /\ micGain = MicGainDefault
  /\ isCalibrating = FALSE /\ calibFreq = 0 /\ signalLevel = <<0, LevelBins>>
  /\ analyzerRef = 0 /\ liveEffect = 0 /\ graphs = << >> /\ edges = {}
  /\ rafPending = {} /\ dataArray = SilentFrame /\ buffer = BlankBuffer /\ pushed = << >> /\ ticks = 0
  /\ sweeps = << >>

\* ------------------------------------------------------------- App actions
\* The start screen (file input, Local Files, Live Monitor) is rendered iff
\* !hasStarted; both buttons are disabled while isLoading.
HandleFileChange(mp3s, others, ctxChoices) ==
  /\ ~hasStarted /\ ~isLoading
  /\ mp3s \cup others # {}
  /\ LET processed == SortByName(mp3s)
     IN IF processed = << >>
        THEN /\ error' = "No MP3 files were found in the selected folder."
             /\ UNCHANGED <<files, currentTrack, micStream, hasStarted, inst,
                            audioCtxRef, ctxs, wsVars, micGain, liveVars,
                            edges, isCalibrating, calibFreq>>
        ELSE /\ error' = "none"
             /\ files' = processed
             /\ micStream' = 0
             /\ hasStarted' = TRUE
             /\ UNCHANGED currentTrack
             /\ \E c \in ctxChoices :
                  Commit(TRUE, 0, currentTrack, processed, micGain,
                         SilentFrame, c)
  /\ UNCHANGED <<isLoading, micPending, streamCount, stoppedStreams, sweeps,
                 snapshotLog>>

HandleStartMic ==
  /\ ~hasStarted /\ ~isLoading
  /\ isLoading' = TRUE
  /\ error' = "none"
  /\ micPending' = TRUE
  /\ UNCHANGED <<files, currentTrack, micStream, hasStarted, streamCount,
                 stoppedStreams, inst, audioCtxRef, ctxs, wsVars, micGain,
                 liveVars, edges, calibVars,
                 snapshotLog>>

\* getUserMedia resolved: the rest of the try block, then finally.
MicGranted(frames, ctxChoices) ==
  /\ micPending
  /\ micPending' = FALSE
  /\ streamCount' = streamCount + 1
  /\ micStream' = streamCount + 1
  /\ files' = << >>
  /\ hasStarted' = TRUE
  /\ isLoading' = FALSE
  /\ \E c \in ctxChoices, f \in frames :
       Commit(TRUE, streamCount + 1, currentTrack, << >>, micGain, f, c)
  /\ UNCHANGED <<currentTrack, error, stoppedStreams, sweeps,
                 snapshotLog>>

\* The rejection handled without the finally block.
MicDenied_NoFinally ==
  /\ micPending
  /\ micPending' = FALSE
  /\ error' = "Microphone access denied or not supported."
  /\ UNCHANGED <<files, currentTrack, micStream, hasStarted, streamCount,
                 stoppedStreams, inst, audioCtxRef, ctxs, wsVars, micGain,
                 liveVars, edges, calibVars, isLoading,
                 snapshotLog>>

\* getUserMedia rejected: catch, then finally.
MicDenied ==
  /\ micPending
  /\ micPending' = FALSE
  /\ error' = "Microphone access denied or not supported."
  /\ isLoading' = FALSE
  /\ UNCHANGED <<files, currentTrack, micStream, hasStarted, streamCount,
                 stoppedStreams, inst, audioCtxRef, ctxs, wsVars, micGain,
                 liveVars, edges, calibVars,
                 snapshotLog>>

\* Sidebar (rendered iff files.length > 0): onSelectTrack = setCurrentTrack.
SelectTrack(t) ==
  /\ hasStarted /\ files # << >> /\ ~isLoading
  /\ t \in Range(files)
  /\ currentTrack' = t
  /\ Commit(hasStarted, micStream, t, files, micGain, SilentFrame, NoCtx)
  /\ UNCHANGED <<files, micStream, isLoading, error, hasStarted, micPending,
                 streamCount, stoppedStreams, sweeps,
                 snapshotLog>>

IndexOf(seq, t) == CHOOSE i \in 1..Len(seq) : seq[i] = t

\* An index that stops at the last file.
NextIndex_NoWrap(k, n) == IF k < n THEN k + 1 ELSE k

\* (currentIndex + 1) % files.length, indices from 0 in the source.
NextIndex(k, n) == ((k - 1 + 1) % n) + 1

\* (currentIndex - 1 + files.length) % files.length
PrevIndex(k, n) == ((k - 1 - 1 + n) % n) + 1

\* The argument of setCurrentTrack in handleNextTrack and handlePrevTrack;
\* after the early return (!currentTrack || files.length === 0) the state
\* keeps its value.
NextTrack(ct, fl) ==
  IF ct = 0 \/ fl = << >> THEN ct
  ELSE fl[NextIndex(IndexOf(fl, ct), Len(fl))]
PrevTrack(ct, fl) ==
  IF ct = 0 \/ fl = << >> THEN ct
  ELSE fl[PrevIndex(IndexOf(fl, ct), Len(fl))]

\* The transport buttons are rendered in file mode while a track is shown;
\* WaveSurfer's 'finish' calls onNext too.
HandleNextTrack ==
  /\ hasStarted /\ micStream = 0 /\ currentTrack # 0
  /\ files # << >> /\ currentTrack \in Range(files)
  /\ LET t == NextTrack(currentTrack, files)
     IN /\ currentTrack' = t
        /\ Commit(hasStarted, micStream, t, files, micGain, SilentFrame, NoCtx)
  /\ UNCHANGED <<files, micStream, isLoading, error, hasStarted, micPending,
                 streamCount, stoppedStreams, sweeps,
                 snapshotLog>>

HandlePrevTrack ==
  /\ hasStarted /\ micStream = 0 /\ currentTrack # 0
  /\ files # << >> /\ currentTrack \in Range(files)
  /\ LET t == PrevTrack(currentTrack, files)
     IN /\ currentTrack' = t
        /\ Commit(hasStarted, micStream, t, files, micGain, SilentFrame, NoCtx)
  /\ UNCHANGED <<files, micStream, isLoading, error, hasStarted, micPending,
                 streamCount, stoppedStreams, sweeps,
                 snapshotLog>>

\* A reset that leaves the microphone tracks running.
ResetLibrary_NoStop ==
  /\ hasStarted
  /\ files' = << >>
  /\ currentTrack' = 0
  /\ micStream' = 0
  /\ hasStarted' = FALSE
  /\ Commit(FALSE, 0, 0, << >>, micGain, SilentFrame, NoCtx)
  /\ UNCHANGED <<isLoading, error, micPending, streamCount, stoppedStreams,
                 sweeps, snapshotLog>>

\* Switch Mode, rendered in the main view.
ResetLibrary ==
  /\ hasStarted
  /\ stoppedStreams' = IF micStream # 0 THEN stoppedStreams \cup {micStream}
                       ELSE stoppedStreams
  /\ files' = << >>
  /\ currentTrack' = 0
  /\ micStream' = 0
  /\ hasStarted' = FALSE
  /\ Commit(FALSE, 0, 0, << >>, micGain, SilentFrame, NoCtx)
  /\ UNCHANGED <<isLoading, error, micPending, streamCount, sweeps,
                 snapshotLog>>


\* --------------------------------------------------- MainPlayer: file mode
\* once('ready'): wavesurfer.current?.play(); setIsBuffering(false).
WsReady ==
  /\ wsLoading # 0 /\ wsLoading \in wsAlive
  /\ wsLoading' = 0
  /\ lastReady' = wsLoading
  /\ isBuffering' = FALSE
  /\ UNCHANGED <<appVars, inst, audioCtxRef, ctxs, wavesurfer, wsAlive, wsCount,
                 specCanvas, playerError, micGain, liveVars, edges, calibVars,
                 snapshotLog>>

\* once('error'): setError(message); setIsBuffering(false).
WsError ==
  /\ wsLoading # 0 /\ wsLoading \in wsAlive
  /\ wsLoading' = 0
  /\ playerError' = "Failed to decode audio file"
  /\ isBuffering' = FALSE
  /\ UNCHANGED <<appVars, inst, audioCtxRef, ctxs, wavesurfer, wsAlive, wsCount,
                 lastReady, specCanvas, micGain, liveVars, edges, calibVars,
                 snapshotLog>>

\* The Spectrogram plugin of the current instance puts its canvas into the
\* container it was created with (spectrogramRef.current).
SpectrogramInit ==
  /\ hasStarted /\ wavesurfer # 0 /\ wavesurfer \in wsAlive
  /\ specCanvas # wavesurfer
  /\ specCanvas' = wavesurfer
  /\ UNCHANGED <<appVars, inst, audioCtxRef, ctxs, wavesurfer, wsAlive, wsCount,
                 wsLoading, lastReady, isBuffering, playerError, micGain,
                 liveVars, edges, calibVars, snapshotLog>>

\* A target that ignores the mode.
TargetCanvas_SpectrogramOnly ==
  IF currentTrack # 0 /\ specCanvas # 0 THEN "spectrogram" ELSE "none"

\* targetCanvas = micStream ? liveCanvasRef.current
\*                         : spectrogramRef.current?.querySelector('canvas').
\* The live canvas is rendered iff micStream, the spectrogram container iff
\* a track is shown in file mode.
TargetCanvas ==
  IF micStream # 0 THEN "live"
  ELSE IF currentTrack # 0 /\ specCanvas # 0 THEN "spectrogram" ELSE "none"

\* takeSnapshot, called on the mounted MainPlayer (its button is rendered
\* with a track or a microphone): without a target it returns, otherwise it
\* downloads one PNG of the target named after the track or 'live'.
TakeSnapshot ==
  /\ hasStarted
  /\ Len(snapshotLog) < MaxSnapshots
  /\ snapshotLog' = Append(snapshotLog,
                           [surface |-> TargetCanvas,
                            files |-> IF TargetCanvas = "none" THEN 0 ELSE 1,
                            name |-> IF TargetCanvas = "none" THEN 0
                                     ELSE currentTrack])
  /\ UNCHANGED <<appVars, inst, audioCtxRef, ctxs, wsVars, micGain, liveVars,
                 edges, calibVars>>

\* --------------------------------------------------- MainPlayer: live mode
\* The gain slider in live mode: setMicGain(v); a new value re-runs the
\* live effect (deps [micStream, micGain]).
SetMicGain(v, frames) ==
  /\ hasStarted /\ micStream # 0
  /\ v \in GainValues /\ v # micGain
  /\ \E f \in frames :
       Commit(hasStarted, micStream, currentTrack, files, v, f, NoCtx)
  /\ UNCHANGED <<appVars, sweeps,
                 snapshotLog>>

\* The instance whose canvas the variable buffer describes.
CanvasOwner == inst

\* What the analyser of graph g reads: silence while its context is
\* suspended or its stream's tracks are stopped.
Audible(g) ==
  /\ ctxs[graphs[g].ctx].state = "running"
  /\ graphs[g].stream \notin stoppedStreams

\* The animation-frame callback of graph g: renderLive, which ends by
\* requesting the next frame (animationFrameId = requestAnimationFrame).
RenderTick(g, frames) ==
  /\ g \in rafPending
  /\ \E f \in frames :
       /\ ~Audible(g) => f = SilentFrame
       /\ LET sampleRate == ctxs[graphs[g].ctx].sampleRate
          IN IF graphs[g].inst = CanvasOwner
             THEN /\ dataArray' = f
                  /\ buffer' = RenderLive(buffer, f, sampleRate)
                  /\ pushed' = Remember(pushed, DrawColumn(f, sampleRate))
                  /\ ticks' = IF ticks > CanvasWidth THEN ticks ELSE ticks + 1
             ELSE UNCHANGED <<dataArray, buffer, pushed, ticks>>
       /\ signalLevel' = IF hasStarted /\ graphs[g].inst = inst
                         THEN Level(f) ELSE signalLevel
  /\ rafPending' = RequestFrame(rafPending, g)
  /\ UNCHANGED <<appVars, inst, audioCtxRef, ctxs, wsVars, micGain, analyzerRef,
                 liveEffect, graphs, edges, calibVars,
                 snapshotLog>>


\* ------------------------------------------------------- calibration sweep
\* for (freq = 10; freq <= FREQ_MAX; freq += 200) { setValueAtTime; stepCount++ }
\* The frequencies scheduled on the oscillator, in scheduling order.
RECURSIVE ScheduledFreqs(_)
ScheduledFreqs(freq) ==
  IF freq <= FREQ_MAX THEN <<freq>> \o ScheduledFreqs(freq + CalibStepFreq)
  ELSE << >>

CalibSchedule == ScheduledFreqs(CalibStartFreq)

\* The final value of stepCount.
StepCount == Len(CalibSchedule)

\* Wall-clock time is counted in periods of the progress interval
\* (stepDuration * 1000 = 50 ms).  The completion timeout is set to
\* (endTime - startTime) * 1000 + 100 ms = stepCount * 50 + 100 ms.
StepMs == 50
TimeoutSlackMs == 100
TimeoutDue(stepCount) == (stepCount * StepMs + TimeoutSlackMs) \div StepMs

\* A state setter called from a closure of instance i acts on the mounted
\* instance only.
Mounted(i) == hasStarted /\ inst = i

\* analyzerRef.current as read by a closure of instance i: the ref of an
\* unmounted instance was set to null by the live effect's cleanup.
AnalyzerRefOf(i) == IF inst = i THEN analyzerRef ELSE 0

\* An invocation suspended at await ctx.resume().
AwaitingSweep(i, c) ==
  [inst |-> i, ctx |-> c, pc |-> "awaiting", analyser |-> 0, stepCount |-> 0,
   currentStep |-> 0, interval |-> FALSE, timeout |-> FALSE, age |-> 0,
   peak |-> 0]

\* runLiveCalibration from setIsCalibrating(true) to its end, for an
\* invocation of instance i on context c: the nodes it connects ...
SweepEdges(s, i, c) ==
  {<<Osc(s), SweepGain(s)>>, <<SweepGain(s), Destination(c)>>}
  \cup (IF AnalyzerRefOf(i) = 0 THEN {}
        ELSE {<<SweepGain(s), Analyser(AnalyzerRefOf(i))>>})

\* ... and what it leaves behind.  gain.connect(null) throws: the function
\* then rejects before the oscillator is scheduled and the timers are set.
SweepStarted(i, c) ==
  IF AnalyzerRefOf(i) = 0
  THEN [AwaitingSweep(i, c) EXCEPT
          !.pc = "failed", !.peak = CalibStartFreq]
  ELSE [inst |-> i, ctx |-> c, pc |-> "running",
        analyser |-> AnalyzerRefOf(i), stepCount |-> StepCount,
        currentStep |-> 0, interval |-> TRUE, timeout |-> TRUE, age |-> 0,
        peak |-> CalibStartFreq]

\* The entry guard: if (!ctx || isCalibrating || !analyzerRef.current) return.
CalibGuard == audioCtxRef # 0 /\ ~isCalibrating /\ analyzerRef # 0

\* Click on Verify Scale (rendered iff micStream, disabled while
\* isCalibrating).  With the context suspended the invocation stops at
\* await ctx.resume(); otherwise it runs to its end.
RunLiveCalibration ==
  /\ hasStarted /\ micStream # 0 /\ ~isCalibrating
  /\ CalibGuard
  /\ Len(sweeps) < MaxSweeps
  /\ LET s == Len(sweeps) + 1
     IN IF ctxs[audioCtxRef].state = "suspended"
        THEN /\ sweeps' = Append(sweeps, AwaitingSweep(inst, audioCtxRef))
             /\ UNCHANGED <<isCalibrating, calibFreq, edges>>
        ELSE /\ sweeps' = Append(sweeps, SweepStarted(inst, audioCtxRef))
             /\ edges' = edges \cup SweepEdges(s, inst, audioCtxRef)
             /\ isCalibrating' = TRUE
             /\ calibFreq' = CalibStartFreq
  /\ UNCHANGED <<appVars, inst, audioCtxRef, ctxs, wsVars, micGain, liveVars,
                 snapshotLog>>

\* Context c starts running: the host resolves all its pending resume()
\* promises in one task, so every invocation suspended on c continues after
\* its await, in invocation order, without looking at isCalibrating again.
ResumeResolved(c) ==
  LET awaiting == {s \in DOMAIN sweeps :
                     sweeps[s].pc = "awaiting" /\ sweeps[s].ctx = c}
      shown == \E s \in awaiting : Mounted(sweeps[s].inst)
  IN /\ awaiting # {}
     /\ ctxs' = [ctxs EXCEPT ![c].state = "running"]
     /\ sweeps' = [s \in DOMAIN sweeps |->
                     IF s \in awaiting THEN SweepStarted(sweeps[s].inst, c)
                     ELSE sweeps[s]]
     /\ edges' = edges \cup
                 UNION {SweepEdges(s, sweeps[s].inst, c) : s \in awaiting}
     /\ isCalibrating' = IF shown THEN TRUE ELSE isCalibrating
     /\ calibFreq' = IF shown THEN CalibStartFreq ELSE calibFreq
     /\ UNCHANGED <<appVars, inst, audioCtxRef, wsVars, micGain, liveVars,
                 snapshotLog>>

\* The setInterval callback of sweep s, due once per period.
IntervalTick(s) ==
  /\ s \in DOMAIN sweeps /\ sweeps[s].interval
  /\ sweeps[s].currentStep < sweeps[s].age
  /\ LET currentStep == sweeps[s].currentStep + 1
         currentFreq == CalibStartFreq + currentStep * CalibStepFreq
         sets == currentFreq <= FREQ_MAX
     IN /\ sweeps' = [sweeps EXCEPT
                        ![s].currentStep = currentStep,
                        ![s].interval = ~(currentFreq > FREQ_MAX),
                        ![s].peak = IF sets /\ currentFreq > @
                                    THEN currentFreq ELSE @]
        /\ calibFreq' = IF sets /\ Mounted(sweeps[s].inst)
                        THEN currentFreq ELSE calibFreq
  /\ UNCHANGED <<appVars, inst, audioCtxRef, ctxs, wsVars, micGain, liveVars,
                 edges, isCalibrating,
                 snapshotLog>>

\* The setTimeout callback of sweep s: back to idle.
SweepTimeout(s) ==
  /\ s \in DOMAIN sweeps /\ sweeps[s].timeout
  /\ sweeps[s].age >= TimeoutDue(sweeps[s].stepCount)
  /\ isCalibrating' = IF Mounted(sweeps[s].inst) THEN FALSE ELSE isCalibrating
  /\ calibFreq' = IF Mounted(sweeps[s].inst) THEN 0 ELSE calibFreq
  /\ sweeps' = [sweeps EXCEPT ![s].timeout = FALSE, ![s].interval = FALSE,
                              ![s].pc = "done"]
  /\ UNCHANGED <<appVars, inst, audioCtxRef, ctxs, wsVars, micGain, liveVars,
                 edges,
                 snapshotLog>>

\* One period of wall-clock time passes.  Timers run on time: no period
\* passes while a callback that is due has not run.
TimerSet(s) == sweeps[s].interval \/ sweeps[s].timeout
Elapse ==
  /\ \E s \in DOMAIN sweeps : TimerSet(s)
  /\ \A s \in DOMAIN sweeps :
       /\ sweeps[s].interval => sweeps[s].currentStep = sweeps[s].age
       /\ sweeps[s].timeout => sweeps[s].age < TimeoutDue(sweeps[s].stepCount)
  /\ sweeps' = [s \in DOMAIN sweeps |->
                  IF TimerSet(s) THEN [sweeps[s] EXCEPT !.age = @ + 1]
                  ELSE sweeps[s]]
  /\ UNCHANGED <<appVars, inst, audioCtxRef, ctxs, wsVars, micGain, liveVars,
                 edges, isCalibrating, calibFreq,
                 snapshotLog>>

\* ------------------------------------------------------ the specifications
AppNext(ctxChoices) ==
  \/ \E mp3s \in SUBSET (1..MaxFiles), others \in SUBSET {0} :
       HandleFileChange(mp3s, others, ctxChoices)
  \/ HandleStartMic
  \/ MicDenied
  \/ \E t \in 1..MaxFiles : SelectTrack(t)
  \/ HandleNextTrack
  \/ HandlePrevTrack
  \/ ResetLibrary
  \/ WsReady
  \/ WsError

CalibNext ==
  \/ RunLiveCalibration
  \/ \E c \in 1..MaxMounts : ResumeResolved(c)
  \/ \E s \in 1..MaxSweeps : IntervalTick(s)
  \/ \E s \in 1..MaxSweeps : SweepTimeout(s)
  \/ Elapse

\* The whole program.
Next ==
  \/ AppNext(CtxChoices)
  \/ MicGranted(Frames, CtxChoices)
  \/ \E v \in GainValues : SetMicGain(v, Frames)
  \/ \E g \in 1..MaxGraphs : RenderTick(g, Frames)
  \/ CalibNext
  \/ SpectrogramInit
  \/ TakeSnapshot

Spec == Init /\ [][Next]_vars

\* The player without the calibration sweep: modes, tracks, the live graph
\* and its render loop over every frame, in a running context.
PlayerCtxChoices == [state : {"running"}, sampleRate : {48000}]

PlayerNext ==
  \/ AppNext(PlayerCtxChoices)
  \/ MicGranted(Frames, PlayerCtxChoices)
  \/ \E v \in GainValues : SetMicGain(v, Frames)
  \/ \E g \in 1..MaxGraphs : RenderTick(g, Frames)

SpecPlayer == Init /\ [][PlayerNext]_vars

\* Live mode with the calibration sweep.  The microphone is silent, the host
\* gives every context the same sample rate, and renderLive, which reads and
\* writes no state of the sweep, is not stepped.
CalibCtxChoices == [state : {"suspended", "running"}, sampleRate : {48000}]

LiveCalibNext ==
  \/ HandleStartMic
  \/ MicDenied
  \/ MicGranted({SilentFrame}, CalibCtxChoices)
  \/ ResetLibrary
  \/ \E v \in GainValues : SetMicGain(v, {SilentFrame})
  \/ CalibNext

SpecCalib == Init /\ [][LiveCalibNext]_vars

\* The same under the assumption that timers fire and that a resume() asked
\* for from a click resolves: a callback that is due runs, and time passes.
CalibFairness ==
  /\ WF_vars(Elapse)
  /\ \A s \in 1..MaxSweeps : WF_vars(IntervalTick(s))
  /\ \A s \in 1..MaxSweeps : WF_vars(SweepTimeout(s))
  /\ \A c \in 1..MaxMounts : WF_vars(ResumeResolved(c))

SpecCalibFair == Init /\ [][LiveCalibNext]_vars /\ CalibFairness

\* File mode with folders of up to MaxTracks files: the folder input, track
\* selection, the transport buttons, decoding and Switch Mode.
NavNext ==
  \/ \E mp3s \in SUBSET (1..MaxTracks), others \in SUBSET {0} :
       HandleFileChange(mp3s, others, PlayerCtxChoices)
  \/ \E t \in 1..MaxTracks : SelectTrack(t)
  \/ HandleNextTrack
  \/ HandlePrevTrack
  \/ ResetLibrary
  \/ WsReady
  \/ WsError

SpecNav == Init /\ [][NavNext]_vars

\* One live session: the render loop over every frame and the gain slider,
\* in a running context of every sample rate.
LiveCtxChoices == [state : {"running"}, sampleRate : SampleRates]

LiveNext ==
  \/ HandleStartMic
  \/ MicGranted(Frames, LiveCtxChoices)
  \/ \E v \in GainValues : SetMicGain(v, Frames)
  \/ \E g \in 1..MaxGraphs : RenderTick(g, Frames)

SpecLive == Init /\ [][LiveNext]_vars

\* The session with snapshots: modes, tracks, the spectrogram canvas and
\* takeSnapshot, with a silent microphone in a running context.
SessionNext ==
  \/ AppNext(PlayerCtxChoices)
  \/ MicGranted({SilentFrame}, PlayerCtxChoices)
  \/ SpectrogramInit
  \/ TakeSnapshot

SpecSession == Init /\ [][SessionNext]_vars


\* ------------------------------------------------------------- the claims
CeilDiv(a, b) == (a + b - 1) \div b

\* C1: with min = 10 Hz, max = FREQ_MAX = 12000 Hz and step = 200 Hz, the
\* number of steps runLiveCalibration schedules on the oscillator (the final
\* stepCount) is ceil((12000 - 10) / 200) + 1 = 61.
C1_StepCountIsCeilPlusOne ==
  \A s \in DOMAIN sweeps :
    sweeps[s].pc \in {"running", "done"} =>
      sweeps[s].stepCount
        = CeilDiv(FREQ_MAX - CalibStartFreq, CalibStepFreq) + 1

\* C2: a sweep that ran to its natural end (every interval callback ran,
\* then the timeout returned the state to idle) has shown a target frequency
\* of at least 11990 Hz.
C2_ReachesTopBeforeIdle ==
  \A s \in DOMAIN sweeps :
    (sweeps[s].pc = "done" /\ sweeps[s].currentStep >= sweeps[s].stepCount) =>
      sweeps[s].peak >= FREQ_MAX - CalibStartFreq

\* C3: a sweep in progress ignores new start requests: among the invocations
\* of the mounted MainPlayer at most one sweep is active (one oscillator, one
\* progress interval, one completion timeout), also when a second click
\* arrives while the first invocation waits at await ctx.resume().
ActiveSweeps(i) ==
  {s \in DOMAIN sweeps : sweeps[s].inst = i /\ sweeps[s].pc = "running"}
C3_AtMostOneSweep == Cardinality(ActiveSweeps(inst)) <= 1

\* C4: when a sweep has returned to idle, its oscillator and gain node have
\* no connection left to the destination or to an analyser.
C4_DisconnectedWhenIdle ==
  \A s \in DOMAIN sweeps :
    sweeps[s].pc = "done" =>
      \A e \in edges :
        e[1] \in {Osc(s), SweepGain(s)} =>
          e[2][1] \notin {"destination", "analyser"}

\* C5: once the MainPlayer that started a sweep is torn down, the sweep's
\* progress interval and completion timeout are cancelled and its gain node
\* is connected to nothing.
C5_TeardownCancelsSweep ==
  \A s \in DOMAIN sweeps :
    ~Mounted(sweeps[s].inst) =>
      /\ ~sweeps[s].interval
      /\ ~sweeps[s].timeout
      /\ \A e \in edges : e[1] # SweepGain(s)

\* C6: a WaveSurfer instance and a live render loop never coexist, and at
\* most one analysis source (WaveSurfer instance or live loop) is alive:
\* on a mode switch or track change the previous one is destroyed first.
C6_OneAnalysisSource ==
  /\ Cardinality(wsAlive) + Cardinality(rafPending) <= 1
  /\ wsAlive # {} => analyzerRef = 0 /\ liveEffect = 0
  /\ wsAlive \subseteq {wavesurfer}

C6_Witness == rafPending # {} /\ wsCount >= 2 /\ wsAlive = {}

\* C7: the buffer keeps its width, and after N runs of renderLive since the
\* live effect attached (and cleared the canvas) the rightmost min(N, width)
\* columns are, in arrival order, the columns drawn for the last
\* min(N, width) frames; the columns left of them are still blank.
Min(a, b) == IF a < b THEN a ELSE b
C8_OneRenderLoop ==
  /\ Cardinality(rafPending) <= 1
  /\ rafPending \subseteq {liveEffect}
  /\ liveEffect # 0 => rafPending = {liveEffect} /\ analyzerRef = liveEffect

C8_Witness ==
  /\ Cardinality(rafPending) = 1 /\ Len(graphs) >= 2
  /\ micGain # MicGainDefault /\ ticks > 1

C10_TornDownGraphDisconnected ==
  \A g \in DOMAIN graphs :
    g # liveEffect =>
      \A e \in edges :
        /\ e[1] \notin {MicSource(g), MicGainNode(g), Analyser(g)}
        /\ e[2] \notin {MicSource(g), MicGainNode(g), Analyser(g)}

\* C11: across mode switches within one session the audio context is created
\* at most once, and every live graph and every calibration sweep is built
\* in that one context.
C11_SingleContext ==
  /\ Len(ctxs) <= 1
  /\ \A g \in DOMAIN graphs : graphs[g].ctx = 1
  /\ \A s \in DOMAIN sweeps : sweeps[s].ctx = 1

\* The sample rate of the context of the current live graph.
LiveSampleRate == ctxs[graphs[liveEffect].ctx].sampleRate

\* C12: for every sample rate the live renderer takes min(FREQ_MAX, nyquist)
\* as the top of its frequency axis: maxFreqIndex is the bin of that
\* frequency, so it is at most frequencyBinCount and the loop reads dataArray
\* only at indices 0..frequencyBinCount-1, also when nyquist < FREQ_MAX.
C12_AxisTopIsMinOfMaxAndNyquist ==
  liveEffect # 0 =>
    LET nyquist == LiveSampleRate \div 2
    IN /\ MaxFreqIndex(LiveSampleRate)
            = (Min(FREQ_MAX, nyquist) * BinCount) \div nyquist
       /\ MaxFreqIndex(LiveSampleRate) <= BinCount
       /\ BandLoopIndices(LiveSampleRate) \subseteq 0..(BinCount - 1)

\* floor(FREQ_MAX / nyquist * frequencyBinCount) for the current live graph.
TopBin == (FREQ_MAX * BinCount) \div (LiveSampleRate \div 2)
\* The column written by the latest run of renderLive.
NewColumn == buffer[NewColumnX]
BinsDrawn == {NewColumn[k].bin : k \in DOMAIN NewColumn}
\* Every band of the new column lies at y = height - (i / maxFreqIndex) * height
\* and is height / maxFreqIndex + 1 thick.
BandGeometry ==
  \A k \in DOMAIN NewColumn :
    /\ NewColumn[k].y
         = <<CanvasHeight * TopBin - NewColumn[k].bin * CanvasHeight, TopBin>>
    /\ NewColumn[k].height = <<CanvasHeight + TopBin, TopBin>>

\* C13 (as stated): on each tick a band is drawn for every bin i with
\* 0 <= i <= maxFreqIndex = floor(FREQ_MAX / nyquist * frequencyBinCount)
\* whose magnitude is > 0, with the stated position and thickness, and no
\* bin above maxFreqIndex is drawn.
C13_BandsUpToMaxFreqIndexInclusive ==
  liveEffect # 0 =>
    /\ \A i \in 0..(BinCount - 1) :
         (i <= TopBin /\ dataArray[i + 1] > 0) <=> i \in BinsDrawn
    /\ Len(NewColumn) = Cardinality(BinsDrawn)
    /\ BandGeometry

\* C13 (amended): the same with the bins 0 <= i < maxFreqIndex: the bin
\* maxFreqIndex itself is not drawn, and no bin from maxFreqIndex on.
C13_BandsBelowMaxFreqIndex ==
  liveEffect # 0 =>
    /\ \A i \in 0..(BinCount - 1) :
         (i < TopBin /\ dataArray[i + 1] > 0) <=> i \in BinsDrawn
    /\ Len(NewColumn) = Cardinality(BinsDrawn)
    /\ BandGeometry

C13_Witness ==
  /\ liveEffect # 0 /\ ticks > 1
  /\ TopBin < BinCount /\ dataArray[TopBin + 1] > 0
  /\ BinsDrawn = 0..(TopBin - 1)

\* C14: in the column written by a tick the band of a bin inside the loop's
\* range is filled, with colormap[magnitude], if and only if its magnitude
\* is > 0; an all-zero frame leaves the column black; the colormap index
\* used is within 0..255.
C14_FillIffPositive ==
  liveEffect # 0 =>
    /\ \A k \in DOMAIN NewColumn :
         /\ NewColumn[k].bin \in 0..(BinCount - 1)
         /\ LET magnitude == dataArray[NewColumn[k].bin + 1]
            IN /\ magnitude > 0
               /\ magnitude \in 0..(ColormapSize - 1)
               /\ NewColumn[k].fill = generateBirdSongColormap[magnitude + 1]
    /\ \A i \in BandLoopIndices(LiveSampleRate) \cap 0..(BinCount - 1) :
         dataArray[i + 1] > 0 => i \in BinsDrawn
    /\ dataArray = SilentFrame => NewColumn = BlankColumn

C14_Witness ==
  /\ liveEffect # 0 /\ ticks > 1
  /\ \E i, j \in BandLoopIndices(LiveSampleRate) \cap 0..(BinCount - 1) :
       /\ dataArray[i + 1] = 0 /\ i \notin BinsDrawn
       /\ dataArray[j + 1] = 255 /\ j \in BinsDrawn
  /\ \A k \in DOMAIN NewColumn : NewColumn[k].fill = <<255, 255, 255>>

\* C15: from the start of a sweep until it returns to idle the displayed
\* target frequency calibFreq never decreases, and the frequencies scheduled
\* on the oscillator increase with their scheduled time.
C15_CalibFreqNonDecreasing ==
  [][/\ \A k \in 1..(Len(CalibSchedule) - 1) :
          CalibSchedule[k] < CalibSchedule[k + 1]
     /\ (/\ hasStarted /\ hasStarted' /\ inst' = inst
         /\ \E s \in DOMAIN sweeps :
              /\ sweeps[s].inst = inst
              /\ sweeps[s].pc = "running" /\ sweeps'[s].pc = "running")
        => calibFreq' >= calibFreq
    ]_vars

\* C16: while a sweep of the mounted MainPlayer is running, its gain node is
\* connected to the analyser the live renderer is reading now
\* (analyzerRef.current), whatever mic gain changes happen meanwhile.
C16_SweepFeedsCurrentAnalyser ==
  \A s \in DOMAIN sweeps :
    (sweeps[s].pc = "running" /\ Mounted(sweeps[s].inst)) =>
      /\ analyzerRef # 0
      /\ <<SweepGain(s), Analyser(analyzerRef)>> \in edges

\* C17: when decoding the chosen track has failed, the message is recorded,
\* the buffering flag is cleared, and the WaveSurfer instance that rendered
\* the previously loaded track is still alive, untouched.
C17_DecodeFailureKeepsPrior ==
  playerError = "Failed to decode audio file" =>
    /\ ~isBuffering
    /\ lastReady # 0 => lastReady \in wsAlive

\* C18: when getUserMedia rejects, handleStartMic sets the error message,
\* returns isLoading to false and leaves the session idle: micStream stays
\* null, hasStarted stays false, files is unchanged, MainPlayer is not
\* mounted, and no further getUserMedia call is pending.
C18_MicDeniedStaysIdle ==
  [][(micPending /\ ~micPending' /\ streamCount' = streamCount) =>
       /\ error' = "Microphone access denied or not supported."
       /\ isLoading' = FALSE
       /\ micStream' = 0 /\ micStream = 0
       /\ hasStarted' = FALSE /\ hasStarted = FALSE
       /\ files' = files /\ currentTrack' = currentTrack
       /\ inst' = inst
    ]_vars

C18_Witness ==
  /\ error = "Microphone access denied or not supported."
  /\ ~isLoading /\ ~micPending /\ ~hasStarted /\ micStream = 0
  /\ inst >= 1

\* C19: takeSnapshot with no surface attached (no track and no microphone,
\* or file mode before the spectrogram canvas exists) produces no file and
\* changes no state (so no error either); with a surface attached it
\* produces exactly one file, taken from the live canvas iff micStream is set
\* and from the spectrogram canvas otherwise.
SurfaceAttached ==
  \/ micStream # 0
  \/ micStream = 0 /\ currentTrack # 0 /\ specCanvas # 0
C19_SnapshotOnAttachedSurface ==
  [][Len(snapshotLog') = Len(snapshotLog) + 1 =>
       LET out == snapshotLog'[Len(snapshotLog')]
       IN /\ UNCHANGED <<appVars, inst, audioCtxRef, ctxs, wsVars, micGain,
                         liveVars, edges, calibVars>>
          /\ ~SurfaceAttached => out.files = 0 /\ out.surface = "none"
          /\ SurfaceAttached =>
               /\ out.files = 1
               /\ out.surface \in {"live", "spectrogram"}
               /\ out.surface = "live" <=> micStream # 0
    ]_vars

C19_Witness ==
  \E i, j \in DOMAIN snapshotLog :
    /\ snapshotLog[i].surface = "none" /\ snapshotLog[i].files = 0
    /\ snapshotLog[j].surface = "live" /\ snapshotLog[j].files = 1

\* C20: the colormap the live effect generates has exactly 256 entries, each
\* an RGB triple of integers in 0..255; colormap[0] is the first keyframe's
\* colour (0,0,0) and colormap[255] the last keyframe's colour (255,255,255).
C20_ColormapShape ==
  (liveEffect # 0 /\ ticks = 1) =>
    /\ DOMAIN generateBirdSongColormap = 1..256
    /\ \A k \in 1..256 :
         /\ DOMAIN generateBirdSongColormap[k] = 1..3
         /\ \A c \in 1..3 : generateBirdSongColormap[k][c] \in 0..255
    /\ generateBirdSongColormap[0 + 1] = KeyPoints[1].color
    /\ generateBirdSongColormap[0 + 1] = <<0, 0, 0>>
    /\ generateBirdSongColormap[255 + 1] = KeyPoints[Len(KeyPoints)].color
    /\ generateBirdSongColormap[255 + 1] = <<255, 255, 255>>

C20_Witness ==
  /\ liveEffect # 0 /\ ticks = 1
  /\ \E k \in DOMAIN NewColumn :
       /\ dataArray[NewColumn[k].bin + 1] = 255
       /\ NewColumn[k].fill = <<255, 255, 255>>

\* Reference for C21 in exact rational arithmetic: the first keyframe
\* interval j with pos[j] <= i/255 <= pos[j+1] (positions in hundredths, both
\* sides multiplied by 100 * 255), and the exact value of a channel there as
\* the fraction num / den.
RefInterval(i) ==
  CHOOSE j \in 1..(Len(KeyPoints) - 1) :
    /\ KeyPoints[j].pos * 255 <= i * 100 /\ i * 100 <= KeyPoints[j + 1].pos * 255
    /\ \A k \in 1..(j - 1) :
         ~(KeyPoints[k].pos * 255 <= i * 100 /\ i * 100 <= KeyPoints[k + 1].pos * 255)
RefNum(i, c) ==
  LET a == KeyPoints[RefInterval(i)]
      b == KeyPoints[RefInterval(i) + 1]
  IN a.color[c] * ((b.pos - a.pos) * 255)
       + (b.color[c] - a.color[c]) * (i * 100 - a.pos * 255)
RefDen(i) ==
  (KeyPoints[RefInterval(i) + 1].pos - KeyPoints[RefInterval(i)].pos) * 255
Dist(n, r, d) == IF n >= r * d THEN n - r * d ELSE r * d - n

\* C21: for every index i in 0..255 each channel of colormap[i] is the
\* integer nearest to the exact linear interpolation over the first keyframe
\* interval that contains i/255 (neither neighbour is as near); at i = 102,
\* where i/255 is exactly the keyframe position 0.4, the earlier interval
\* [0.15, 0.4] is used and the entry is that keyframe's colour (140,0,160).
C21_ColormapIsRoundedInterpolation ==
  (liveEffect # 0 /\ ticks = 1) =>
    /\ \A i \in 0..255 :
         /\ SegmentStart(i) = KeyPoints[RefInterval(i)]
         /\ SegmentEnd(i) = KeyPoints[RefInterval(i) + 1]
         /\ \A c \in 1..3 :
              LET v == generateBirdSongColormap[i + 1][c]
              IN /\ 2 * Dist(RefNum(i, c), v, RefDen(i)) <= RefDen(i)
                 /\ 2 * Dist(RefNum(i, c), v - 1, RefDen(i)) > RefDen(i)
                 /\ 2 * Dist(RefNum(i, c), v + 1, RefDen(i)) > RefDen(i)
    /\ RefInterval(102) = 2
    /\ SegmentEnd(102) = KeyPoints[3]
    /\ generateBirdSongColormap[102 + 1] = <<140, 0, 160>>

C21_Witness ==
  /\ liveEffect # 0 /\ ticks = 1
  /\ 102 * 100 = KeyPoints[3].pos * 255
  /\ SegmentStart(102) = KeyPoints[2]
  /\ generateBirdSongColormap[102 + 1] = KeyPoints[3].color
  /\ generateBirdSongColormap[101 + 1] # generateBirdSongColormap[103 + 1]


\* The sum of frame[lo..hi], counted from the low end.
RECURSIVE RefSum(_, _, _)
RefSum(frame, lo, hi) ==
  IF lo > hi THEN 0 ELSE frame[lo] + RefSum(frame, lo + 1, hi)

\* C22: a run of renderLive sets the signal level to the sum of the first
\* LevelBins magnitudes of the frame it pulled, divided by LevelBins, a value
\* between 0 and 255; the frame is drawn as pulled and the columns drawn
\* before it are the old ones moved one pixel to the left.
C22_SignalLevelIsLowBandMean ==
  [][(liveEffect' # 0 /\ (ticks' # ticks \/ dataArray' # dataArray
                          \/ signalLevel' # signalLevel)) =>
       /\ signalLevel' = <<RefSum(dataArray', 1, LevelBins), LevelBins>>
       /\ signalLevel'[1] >= 0
       /\ signalLevel'[1] <= 255 * signalLevel'[2]
       /\ dataArray' \in Frames
       /\ buffer'[NewColumnX] =
            DrawColumn(dataArray', ctxs'[graphs'[liveEffect'].ctx].sampleRate)
       /\ liveEffect' = liveEffect =>
            \A x \in 1..(CanvasWidth - 1) : buffer'[x] = buffer[x + 1]
    ]_vars

C22_Witness ==
  /\ liveEffect # 0 /\ ticks > 1
  /\ signalLevel = <<0, LevelBins>>
  /\ \E i \in (LevelBins + 1)..BinCount : dataArray[i] = 255
  /\ buffer[NewColumnX] # BlankColumn
  /\ buffer[1] # BlankColumn


\* C23: within a live session the waterfall changes only by a run of
\* renderLive: after every step that keeps the session (same MainPlayer, same
\* stream) the buffer is either unchanged or its columns are the old ones
\* moved one pixel to the left; in particular a change of the mic gain leaves
\* every drawn column in place.
C23_GainChangeKeepsColumns ==
  [][(liveEffect # 0 /\ liveEffect' # 0 /\ inst' = inst
        /\ micStream' = micStream) =>
       \/ buffer' = buffer
       \/ \A x \in 1..(CanvasWidth - 1) : buffer'[x] = buffer[x + 1]
    ]_vars


\* Once a sweep is shown as running, the idle state follows.
EventuallyIdle ==
  (hasStarted /\ isCalibrating) ~> (~isCalibrating /\ calibFreq = 0)

\* C24: every sweep that starts returns to idle: once isCalibrating is true
\* a state with isCalibrating false and calibFreq 0 follows, and from that
\* return on no progress-interval callback of the mounted player runs unless
\* a sweep is shown as running.
C24_SweepReturnsToIdle ==
  /\ EventuallyIdle
  /\ [][\A s \in DOMAIN sweeps :
          (s \in DOMAIN sweeps' /\ Mounted(sweeps[s].inst)
             /\ sweeps'[s].currentStep # sweeps[s].currentStep)
            => isCalibrating]_vars

\* C25: while MainPlayer is mounted, isCalibrating = false implies
\* calibFreq = 0.
C25_IdleShowsNoFrequency ==
  (hasStarted /\ ~isCalibrating) => calibFreq = 0


\* C26: file mode and live mode exclude each other: micStream is set only
\* with files empty and currentTrack null; currentTrack is null or one of
\* files; every stream handed out other than the current one has had its
\* tracks stopped; and a resetLibrary ends with files = [], currentTrack =
\* null, micStream = null, hasStarted = false and every stream stopped.
C26_ModesExclusive ==
  /\ [](/\ micStream # 0 => (files = << >> /\ currentTrack = 0)
        /\ currentTrack = 0 \/ currentTrack \in Range(files)
        /\ \A st \in 1..streamCount : st = micStream \/ st \in stoppedStreams)
  /\ [][(hasStarted /\ ~hasStarted') =>
          /\ files' = << >> /\ currentTrack' = 0 /\ micStream' = 0
          /\ \A st \in 1..streamCount' : st \in stoppedStreams'
          /\ micStream # 0 => micStream \in stoppedStreams'
       ]_vars

C26_Witness ==
  /\ ~hasStarted /\ files = << >> /\ currentTrack = 0 /\ micStream = 0
  /\ streamCount > 0 /\ stoppedStreams = 1..streamCount
  /\ wsCount > 0


\* C27: with n >= 1 files and currentTrack at (1-based) position k of files,
\* handleNextTrack selects the file after it, the first after the last, and
\* handlePrevTrack the file before it, the last before the first; each undoes
\* the other; with currentTrack null or files empty both leave currentTrack
\* as it is.  A step of either handler changes currentTrack to that file and
\* leaves files and the mode alone.
C27_NavigationWrapsAndInverts ==
  /\ [](LET n == Len(files)
            ct == currentTrack
        IN /\ (ct # 0 /\ files # << >>) =>
                LET k == IndexOf(files, ct)
                IN /\ NextTrack(ct, files) = files[IF k = n THEN 1 ELSE k + 1]
                   /\ PrevTrack(ct, files) = files[IF k = 1 THEN n ELSE k - 1]
                   /\ PrevTrack(NextTrack(ct, files), files) = ct
                   /\ NextTrack(PrevTrack(ct, files), files) = ct
           /\ (ct = 0 \/ files = << >>) =>
                /\ NextTrack(ct, files) = ct
                /\ PrevTrack(ct, files) = ct)
  /\ [][/\ HandleNextTrack =>
             LET k == IndexOf(files, currentTrack)
             IN /\ currentTrack' = files[IF k = Len(files) THEN 1 ELSE k + 1]
                /\ UNCHANGED <<files, micStream, hasStarted>>
        /\ HandlePrevTrack =>
             LET k == IndexOf(files, currentTrack)
             IN /\ currentTrack' = files[IF k = 1 THEN Len(files) ELSE k - 1]
                /\ UNCHANGED <<files, micStream, hasStarted>>
       ]_vars

C27_Witness ==
  /\ hasStarted /\ micStream = 0
  /\ Len(files) >= 3 /\ currentTrack = files[Len(files)]
  /\ wsCount = MaxWs /\ lastReady = 1 /\ wavesurfer = MaxWs
  /\ NextTrack(currentTrack, files) = files[1]
  /\ PrevTrack(currentTrack, files) # NextTrack(currentTrack, files)


====
